---- MODULE Spec2Model ----
(***************************************************************************)
(* dns402: the server middleware (dns402), the client (DNS402Client) and   *)
(* the on-chain verifier (verifyPayment), modelled as state machines.      *)
(* Every async function is cut at its await points; what runs between two  *)
(* awaits is one action.                                                    *)
(*                                                                         *)
(* Amounts: prices and token uiAmounts are counted in hundredths of a unit *)
(* (price 100 is 1.00), SOL balances in lamports. Time is Date.now() in ms.*)
(* An absent header or optional field is the empty string "" (falsy in the *)
(* source), an absent number is 0 (falsy as well).                         *)
(***************************************************************************)
EXTENDS Integers, Sequences, FiniteSets, TLC

\* ---------------------------------------------------------------- bounds
MaxTicks == 2          \* the clock stops after MaxTicks ticks
MaxGrants == 2         \* the grant history counts up to MaxGrants per signature
MaxSends == 2          \* the client's ledger confirms at most MaxSends payments
MaxRecords == 2        \* a TXT answer holds at most MaxRecords records

\* ------------------------------------------------------ program constants
DefaultTTL == 3600
SweepInterval == 60000

\* one tick of the model's clock, in ms
TickMs == SweepInterval
LAMPORTS_PER_SOL == 1000000000

\* ------------------------------------------------------------ value sets
Domains == {"d1"}
Payers == {"P1", "P2"}
Sigs == {"S1", "S2"}
Slots == {1, 2}

VARIABLES
    now,        \* Date.now()
    sconfig,    \* the DNS402ServerConfig the middleware was built with
    sessions,   \* the middleware's Map<string, PaymentSession>
    nextSweep,  \* earliest time the setInterval callback fires next
    reqs,       \* the server's requests: position in the handler and response
    ledger,     \* the chain: signature -> confirmed transaction
    granted,    \* history: signature -> sessions the server created for it
    cconfig,    \* the DNS402ClientConfig the client was built with
    sessionCache, \* the client's Map<string, DNS402Session>
    calls,      \* the client's fetch()/pay() calls: position, locals, result
    nextSig,    \* number of payments the ledger has confirmed for the client
    run         \* one run of the codec or of discovery: its input and results

svars == <<sconfig, sessions, nextSweep, reqs, ledger, granted>>
cvars == <<cconfig, sessionCache, calls, nextSig>>
vars == <<now, sconfig, sessions, nextSweep, reqs, ledger, granted,
          cconfig, sessionCache, calls, nextSig, run>>

\* ------------------------------------------------------------ the ledger
\* A confirmed transaction as connection.getTransaction returns it:
\* meta.err, the account keys with meta.preBalances / meta.postBalances
\* (lamports), and meta.preTokenBalances / meta.postTokenBalances.
Lam(h) == h * (LAMPORTS_PER_SOL \div 100)   \* lamports of h hundredths of a SOL

TxSol(h, to, failed) ==
    [ err |-> failed,
      accountKeys |-> <<"P1", to>>,
      preBalances |-> <<Lam(200), Lam(7)>>,
      postBalances |-> <<Lam(200) - Lam(h), Lam(7) + Lam(h)>>,
      preTokenBalances |-> <<>>,
      postTokenBalances |-> <<>> ]

TxTok(h, to, withPre) ==
    [ err |-> FALSE,
      accountKeys |-> <<"P1", "ata">>,
      preBalances |-> <<Lam(200), Lam(7)>>,
      postBalances |-> <<Lam(200), Lam(7)>>,
      preTokenBalances |->
          IF withPre THEN <<[accountIndex |-> 1, owner |-> to, uiAmount |-> 40]>>
          ELSE <<>>,
      postTokenBalances |->
          <<[accountIndex |-> 1, owner |-> to,
             uiAmount |-> IF withPre THEN 40 + h ELSE h]>> ]

LedgerTxs ==
    { TxSol(100, "W1", FALSE), TxSol(99, "W1", FALSE), TxSol(98, "W1", FALSE),
      TxSol(100, "W1", TRUE), TxSol(100, "W2", FALSE),
      TxTok(100, "W1", TRUE), TxTok(98, "W1", FALSE) }

\* The transaction each signature of the model names: S1 moves 0.99 SOL to
\* W1, S2 is a transfer of 1.00 SOL to W1 that failed on chain; S2 is on the
\* chain from the start, S1 is confirmed while the server runs.
ChainTx(sig) == IF sig = "S1" THEN TxSol(99, "W1", FALSE) ELSE TxSol(100, "W1", TRUE)

\* A transaction that getTransaction returns without its meta.
TxNoMeta == [meta |-> FALSE]

\* verifyPayment(connection, signature, expectedRecipient, expectedAmount,
\* currency). rpcOk = FALSE is getTransaction throwing: the catch returns
\* false. received >= expectedAmount * 0.99 is compared exactly.
SolReceived(tx, recipient, expectedAmount) ==
    \E i \in 1..Len(tx.accountKeys) :
        /\ tx.accountKeys[i] = recipient
        /\ (tx.postBalances[i] - tx.preBalances[i])
               >= expectedAmount * 99 * (LAMPORTS_PER_SOL \div 10000)

PreAmount(tx, post) ==
    IF \E j \in 1..Len(tx.preTokenBalances) :
           tx.preTokenBalances[j].accountIndex = post.accountIndex
    THEN LET j == CHOOSE j \in 1..Len(tx.preTokenBalances) :
                     /\ tx.preTokenBalances[j].accountIndex = post.accountIndex
                     /\ \A k \in 1..(j - 1) :
                            tx.preTokenBalances[k].accountIndex # post.accountIndex
         IN  tx.preTokenBalances[j].uiAmount
    ELSE 0

TokenReceived(tx, recipient, expectedAmount) ==
    \E i \in 1..Len(tx.postTokenBalances) :
        LET post == tx.postTokenBalances[i] IN
        /\ post.owner = recipient
        /\ (post.uiAmount - PreAmount(tx, post)) * 100 >= expectedAmount * 99

verifyPayment_IgnoreErr(chain, rpcOk, signature, expectedRecipient, expectedAmount, currency) ==
    IF ~rpcOk THEN FALSE
    ELSE IF signature \notin DOMAIN chain THEN FALSE
    ELSE IF chain[signature] = TxNoMeta THEN FALSE
    ELSE IF currency = "SOL"
         THEN SolReceived(chain[signature], expectedRecipient, expectedAmount)
         ELSE TokenReceived(chain[signature], expectedRecipient, expectedAmount)

verifyPayment(chain, rpcOk, signature, expectedRecipient, expectedAmount, currency) ==
    IF ~rpcOk THEN FALSE
    ELSE IF signature \notin DOMAIN chain THEN FALSE
    ELSE IF chain[signature] = TxNoMeta THEN FALSE
    ELSE IF chain[signature].err THEN FALSE
    ELSE IF currency = "SOL"
         THEN SolReceived(chain[signature], expectedRecipient, expectedAmount)
         ELSE TokenReceived(chain[signature], expectedRecipient, expectedAmount)

\* Optional values: None is null / undefined, Some(x) is the value x.
None == <<>>
Some(x) == <<x>>

\* A number written out, as in `p=${config.price}`, `t=${config.ttl}` and
\* config.price.toString(): NumberStr for amounts (in hundredths), IntStr
\* for whole numbers.
NumberStr(n) ==
    CASE n = 0 -> "0" [] n = 50 -> "0.5" [] n = 100 -> "1" [] n = 200 -> "2"
      [] n = 6000 -> "60" [] n = -100 -> "-1" [] OTHER -> "NaN"
IntStr(n) ==
    CASE n = 0 -> "0" [] n = 60 -> "60" [] n = 1 -> "1" [] n = 2 -> "2"
      [] n = 3600 -> "3600" [] n = -1 -> "-1" [] OTHER -> "NaN"

\* ------------------------------------------------------------ the server
ServerConfigs ==
    [ wallet : {"W1"}, price : {100}, currency : {"SOL", "USDC"},
      sessionTTL : {0, 60}, onPayment : BOOLEAN ]

sessionTTL_NoDefault == sconfig.sessionTTL * 1000

\* const sessionTTL = (config.sessionTTL || 3600) * 1000
sessionTTL == (IF sconfig.sessionTTL # 0 THEN sconfig.sessionTTL ELSE DefaultTTL) * 1000

IdleReq == [ pc |-> "idle", proof |-> "", payer |-> "", isValid |-> FALSE,
             status |-> 0, forwarded |-> FALSE, threw |-> FALSE,
             challenge |-> None ]   \* headers and JSON body of a 402 sent

send402_HeaderTTL(config) ==
    [ status |-> 402,
      headers |-> ("DNS402-Price" :> NumberStr(config.price)
                   @@ "DNS402-Currency" :> config.currency
                   @@ "DNS402-Network" :> "solana"
                   @@ "DNS402-Wallet" :> config.wallet
                   @@ "DNS402-Session-TTL" :> IntStr(config.sessionTTL)),
      body |-> [ error |-> "Payment Required", price |-> config.price,
                 currency |-> config.currency, network |-> "solana",
                 wallet |-> config.wallet,
                 sessionTTL |-> IF config.sessionTTL # 0 THEN config.sessionTTL
                                ELSE DefaultTTL ] ]

\* send402(res, config): the status, the DNS402-* headers set and the body
send402(config) ==
    [ status |-> 402,
      headers |-> ("DNS402-Price" :> NumberStr(config.price)
                   @@ "DNS402-Currency" :> config.currency
                   @@ "DNS402-Network" :> "solana"
                   @@ "DNS402-Wallet" :> config.wallet
                   @@ "DNS402-Session-TTL" :>
                          IntStr(IF config.sessionTTL # 0 THEN config.sessionTTL
                                 ELSE DefaultTTL)),
      body |-> [ error |-> "Payment Required", price |-> config.price,
                 currency |-> config.currency, network |-> "solana",
                 wallet |-> config.wallet,
                 sessionTTL |-> IF config.sessionTTL # 0 THEN config.sessionTTL
                                ELSE DefaultTTL ] ]

RejectStatus_402 == 402

\* res.status(403).json({error: 'Invalid payment proof', ...})
RejectStatus == 403

SessionLive_NoExpiry(map, key, t) == key \in DOMAIN map

\* sessions.get(payer) followed by session && session.expiresAt > Date.now()
SessionLive(map, key, t) == key \in DOMAIN map /\ map[key].expiresAt > t

MapSet_Only(map, key, val) == [k \in {key} |-> val]

\* sessions.set(payer, session)
MapSet(map, key, val) ==
    [k \in DOMAIN map \cup {key} |-> IF k = key THEN val ELSE map[k]]

HandleRequest_VerifyFirst(r, proof, payer) ==
    /\ reqs[r].pc = "idle"
    /\ \A r2 \in Slots : r2 < r => reqs[r2].pc # "idle"
    /\ LET q == [IdleReq EXCEPT !.proof = proof, !.payer = payer] IN
       IF proof # "" /\ payer # ""
       THEN reqs' = [reqs EXCEPT ![r] = [q EXCEPT !.pc = "verify"]]
       ELSE IF payer # "" /\ SessionLive(sessions, payer, now)
       THEN reqs' = [reqs EXCEPT ![r] = [q EXCEPT !.pc = "done", !.forwarded = TRUE]]
       ELSE reqs' = [reqs EXCEPT ![r] = [q EXCEPT !.pc = "done",
                                              !.status = send402(sconfig).status,
                                              !.challenge = Some(send402(sconfig))]]
    /\ UNCHANGED <<now, run, sconfig, sessions, nextSweep, ledger, granted, cvars>>

\* The handler from its entry to its first await (or to its return). A new
\* request takes the first slot that holds no request in flight.
HandleRequest(r, proof, payer) ==
    /\ reqs[r].pc = "idle"
    /\ \A r2 \in Slots : r2 < r => reqs[r2].pc # "idle"
    /\ LET q == [IdleReq EXCEPT !.proof = proof, !.payer = payer] IN
       IF payer # "" /\ SessionLive(sessions, payer, now)
       THEN reqs' = [reqs EXCEPT ![r] = [q EXCEPT !.pc = "done", !.forwarded = TRUE]]
       ELSE IF proof = "" \/ payer = ""
       THEN reqs' = [reqs EXCEPT ![r] = [q EXCEPT !.pc = "done",
                                              !.status = send402(sconfig).status,
                                              !.challenge = Some(send402(sconfig))]]
       ELSE reqs' = [reqs EXCEPT ![r] = [q EXCEPT !.pc = "verify"]]
    /\ UNCHANGED <<now, run, sconfig, sessions, nextSweep, ledger, granted, cvars>>

\* await verifyPayment(...) resumes: 403, or the session is written and the
\* handler goes on to the onPayment hook or to next().
VerifyReturns(r, rpcOk) ==
    /\ reqs[r].pc = "verify"
    /\ LET q == reqs[r]
           isValid == verifyPayment(ledger, rpcOk, q.proof, sconfig.wallet,
                                    sconfig.price, sconfig.currency)
           session == [payer |-> q.payer, signature |-> q.proof,
                       expiresAt |-> now + sessionTTL]
       IN
       IF ~isValid
       THEN /\ reqs' = [reqs EXCEPT ![r] = [q EXCEPT !.pc = "done",
                                                      !.status = RejectStatus]]
            /\ UNCHANGED <<sessions, granted>>
       ELSE /\ sessions' = MapSet(sessions, q.payer, session)
            /\ granted' = [granted EXCEPT ![q.proof] =
                               IF @ < MaxGrants THEN @ + 1 ELSE @]
            /\ IF sconfig.onPayment
               THEN reqs' = [reqs EXCEPT ![r] = [q EXCEPT !.pc = "onPayment",
                                                          !.isValid = TRUE]]
               ELSE reqs' = [reqs EXCEPT ![r] = [q EXCEPT !.pc = "done",
                                                          !.isValid = TRUE,
                                                          !.forwarded = TRUE]]
    /\ UNCHANGED <<now, run, sconfig, nextSweep, ledger, cvars>>

\* await Promise.resolve(config.onPayment(paymentProof)) resumes: next() when
\* the hook succeeded; when it threw or rejected the handler rejects.
OnPaymentReturns(r, ok) ==
    /\ reqs[r].pc = "onPayment"
    /\ reqs' = [reqs EXCEPT ![r] =
                   IF ok THEN [@ EXCEPT !.pc = "done", !.forwarded = TRUE]
                   ELSE [@ EXCEPT !.pc = "done", !.threw = TRUE]]
    /\ UNCHANGED <<now, run, sconfig, sessions, nextSweep, ledger, granted, cvars>>

\* The response of a finished request has gone out; its slot is free again.
Finish(r) ==
    /\ reqs[r].pc = "done"
    /\ reqs' = [reqs EXCEPT ![r] = IdleReq]
    /\ UNCHANGED <<now, run, sconfig, sessions, nextSweep, ledger, granted, cvars>>

Swept_Reversed(session, t) == session.expiresAt > t

\* if (session.expiresAt < now) sessions.delete(key)
Swept(session, t) == session.expiresAt < t

\* The setInterval callback.
Sweep ==
    /\ now >= nextSweep
    /\ sessions' = [k \in {p \in DOMAIN sessions : ~Swept(sessions[p], now)}
                        |-> sessions[k]]
    /\ nextSweep' = now + SweepInterval
    /\ UNCHANGED <<now, run, sconfig, reqs, ledger, granted, cvars>>

\* A transaction is confirmed on chain; confirmed transactions never change.
Confirm(sig) ==
    /\ sig \notin DOMAIN ledger
    /\ ledger' = MapSet(ledger, sig, ChainTx(sig))
    /\ UNCHANGED <<now, run, sconfig, sessions, nextSweep, reqs, granted, cvars>>

\* ---------------------------------------------------------- the codec
\* Number.NaN (parseFloat / parseInt of a text that is no number) and an
\* absent optional number (undefined); both are falsy.
NaN == -999999
Undefined == -999998
Truthy(n) == n \notin {0, NaN, Undefined}

\* A string of the codec is a sequence of tokens: the separators ";", "="
\* and " ", and words that hold none of the three. Word(w) is the string of
\* the one word w, Join(s) the text of s as a single value.
Word(w) == IF w = "" THEN <<>> ELSE <<w>>

RECURSIVE Join(_)
Join(s) == IF s = <<>> THEN "" ELSE s[1] \o Join(Tail(s))

\* String.prototype.split(sep)
RECURSIVE Split(_, _)
Split(s, sep) ==
    LET at == {i \in 1..Len(s) : s[i] = sep} IN
    IF at = {} THEN <<s>>
    ELSE LET i == CHOOSE i \in at : \A j \in at : i <= j
         IN  <<SubSeq(s, 1, i - 1)>> \o Split(SubSeq(s, i + 1, Len(s)), sep)

\* String.prototype.trim()
Trim(s) ==
    LET ink == {i \in 1..Len(s) : s[i] # " "} IN
    IF ink = {} THEN <<>>
    ELSE SubSeq(s, CHOOSE i \in ink : \A j \in ink : i <= j,
                   CHOOSE i \in ink : \A j \in ink : j <= i)

\* Array.prototype.join(sep)
RECURSIVE JoinWith(_, _)
JoinWith(strs, sep) ==
    IF strs = <<>> THEN <<>>
    ELSE IF Len(strs) = 1 THEN strs[1]
    ELSE strs[1] \o <<sep>> \o JoinWith(Tail(strs), sep)

\* The text "k=v", and a TXT value as a domain owner writes it.
Part(k, v) == <<k, "=">> \o Word(v)

TxtOf(p, c, t) ==
    JoinWith(<<Part("v", "dns402"), Part("p", p), Part("c", c),
               Part("n", "solana"), Part("w", "W1")>>
             \o (IF t # "" THEN <<Part("t", t)>> ELSE <<>>), ";")

PublishedTxts ==
    { TxtOf("1", "usdc", "60"), TxtOf("2", "USDC", "0"), TxtOf("1", "SOL", ""),
      JoinWith(<<Part("v", "dns401"), Part("p", "1")>>, ";") }

\* What a lookup of _402.<domain> yields at the moment it is made: one of
\* the published values, or nothing (the empty text) when it fails.
Lookups == PublishedTxts \cup {<<>>}

\* parseFloat, in hundredths; parseInt(_, 10); toUpperCase; toLowerCase.
ParseFloat(str) ==
    CASE str = "0" -> 0 [] str = "0.5" -> 50 [] str = "1" -> 100 [] str = "2" -> 200
      [] str = "60" -> 6000 [] str = "-1" -> -100 [] OTHER -> NaN
ParseInt(str) ==
    CASE str = "0" -> 0 [] str = "60" -> 60 [] str = "1" -> 1 [] str = "2" -> 2
      [] str = "3600" -> 3600 [] str = "-1" -> -1 [] OTHER -> NaN
ToUpperCase(str) ==
    CASE str = "usdc" -> "USDC" [] str = "sol" -> "SOL" [] OTHER -> str
ToLowerCase(str) ==
    CASE str = "SOLANA" -> "solana" [] str = "Solana" -> "solana" [] OTHER -> str

\* txt.split(';').map(p => p.trim()).filter(Boolean)
NonEmpty(s) == s # <<>>
parts(txt) ==
    LET raw == Split(txt, ";") IN
    SelectSeq([i \in 1..Len(raw) |-> Trim(raw[i])], NonEmpty)

\* data[key] after the loop over the parts: for each part, [key, value] are
\* its first two pieces between '=' signs, and data[key.trim()] is set to
\* value.trim() when both are non-empty; the last such part wins. An unset
\* key reads as "" (undefined in the source, falsy as well).
DataOf(txt, key) ==
    LET ps == parts(txt)
        kv(i) == Split(ps[i], "=")
        hits == {i \in 1..Len(ps) :
                    /\ Len(kv(i)) >= 2
                    /\ kv(i)[1] # <<>> /\ kv(i)[2] # <<>>
                    /\ Join(Trim(kv(i)[1])) = key}
    IN  IF hits = {} THEN ""
        ELSE Join(Trim(kv(CHOOSE i \in hits : \A j \in hits : j <= i)[2]))

parseRecord(txt) ==
    IF \/ DataOf(txt, "v") # "dns402" \/ DataOf(txt, "p") = ""
       \/ DataOf(txt, "c") = "" \/ DataOf(txt, "n") = "" \/ DataOf(txt, "w") = ""
    THEN None
    ELSE Some([ version |-> DataOf(txt, "v"),
                price |-> ParseFloat(DataOf(txt, "p")),
                currency |-> ToUpperCase(DataOf(txt, "c")),
                network |-> ToLowerCase(DataOf(txt, "n")),
                wallet |-> DataOf(txt, "w"),
                ttl |-> IF DataOf(txt, "t") # "" THEN ParseInt(DataOf(txt, "t"))
                        ELSE Undefined,
                model |-> IF DataOf(txt, "m") # "" THEN DataOf(txt, "m")
                          ELSE "per-request",
                callback |-> DataOf(txt, "cb"),
                mint |-> DataOf(txt, "mint") ])

\* generateRecord(config); the string fields of config are strings of tokens.
generateRecord(config) ==
    JoinWith(<< <<"v", "=", "dns402">>,
                <<"p", "=", NumberStr(config.price)>>,
                <<"c", "=">> \o config.currency,
                <<"n", "=", "solana">>,
                <<"w", "=">> \o config.wallet >>
             \o (IF Truthy(config.ttl)
                 THEN << <<"t", "=", IntStr(config.ttl)>> >> ELSE <<>>)
             \o (IF config.model # <<>>
                 THEN << <<"m", "=">> \o config.model >> ELSE <<>>)
             \o (IF config.callback # <<>>
                 THEN << <<"cb", "=">> \o config.callback >> ELSE <<>>)
             \o (IF config.mint # <<>>
                 THEN << <<"mint", "=">> \o config.mint >> ELSE <<>>),
             ";")

\* A record returned by parseRecord, passed to generateRecord as its config.
AsConfig(record) ==
    [ price |-> record.price, currency |-> Word(record.currency),
      wallet |-> Word(record.wallet), ttl |-> record.ttl,
      model |-> Word(record.model), callback |-> Word(record.callback),
      mint |-> Word(record.mint) ]

\* record.join('') over the chunks of one TXT record
RECURSIVE Concat(_)
Concat(chunks) == IF chunks = <<>> THEN <<>> ELSE chunks[1] \o Concat(Tail(chunks))

\* The loop of resolveRecord over the records of the answer: the first
\* record whose text parseRecord decodes, null when there is none.
RECURSIVE FirstParsed(_)
FirstParsed(records) ==
    IF records = <<>> THEN None
    ELSE LET parsed == parseRecord(Concat(records[1])) IN
         IF parsed # None THEN parsed ELSE FirstParsed(Tail(records))

\* resolveRecord(domain): dns.resolveTxt throws (the catch returns null) or
\* answers with the records of _402.<domain>.
resolveRecord(lookup) ==
    IF lookup.throws THEN None ELSE FirstParsed(lookup.records)

\* DNS402Client.discover(domain): with config.dnsResolver the resolver's one
\* text (or null) is awaited and decoded, with nothing around the await;
\* without it resolveRecord answers.
DNS402Client_discover(lookup) ==
    IF lookup.resolver
    THEN IF lookup.throws THEN [threw |-> TRUE, value |-> None]
         ELSE IF lookup.txt = <<>> THEN [threw |-> FALSE, value |-> None]
         ELSE [threw |-> FALSE, value |-> parseRecord(lookup.txt)]
    ELSE [threw |-> FALSE, value |-> resolveRecord(lookup)]

\* ------------------------------------------------------------ the client
ClientConfigs ==
    [ autoPay : [set : {FALSE}, enabled : {FALSE}, maxAmount : {0}, currency : {""}]
                \cup [set : {TRUE}, enabled : BOOLEAN, maxAmount : {100},
                      currency : {"USDC"}],
      sessionCache : BOOLEAN ]

walletAddress == "P1"

NoProof == [signature |-> 0, payer |-> "", timestamp |-> 0]

IdleCall == [ kind |-> "", pc |-> "idle", domain |-> "",
              record |-> None,      \* fetch's local 'record', while in use
              payRecord |-> None,   \* pay's local 'record', while in use
              session |-> None,     \* the session found in the cache or created
              sends |-> 0,          \* sendPayment calls made by this call
              writes |-> 0,         \* sessionCache.set calls made by this call
              http |-> <<>>,        \* proofs of the HTTP requests issued
              outcome |-> "",       \* "response", "session" or "error"
              got |-> 0,            \* status of the last response received
              returned |-> 0,       \* status of the response returned
              error |-> "" ]

\* parseRecord over the texts a lookup can yield, decoded once.
Decoded == [txt \in Lookups |-> parseRecord(txt)]

\* discover(domain): the resolver's text decoded by parseRecord, null when
\* the lookup fails or finds nothing.
discover(domain, txt) == IF txt = <<>> THEN None ELSE Decoded[txt]

CacheHit_Reversed(map, key, t) == key \in DOMAIN map /\ map[key].expiresAt < t

\* cached && cached.expiresAt > Date.now(), in pay() and in fetch()
CacheHit(map, key, t) == key \in DOMAIN map /\ map[key].expiresAt > t

getSession_Inclusive(domain) ==
    IF domain \in DOMAIN sessionCache /\ sessionCache[domain].expiresAt >= now
    THEN Some(sessionCache[domain]) ELSE None

\* getSession(domain)
getSession(domain) ==
    IF domain \in DOMAIN sessionCache /\ sessionCache[domain].expiresAt > now
    THEN Some(sessionCache[domain]) ELSE None

AutoPayEnabled_IfSet == cconfig.autoPay.set

\* this.config.autoPay?.enabled
AutoPayEnabled == cconfig.autoPay.set /\ cconfig.autoPay.enabled

Exceeds_Never(price, maxAmount) == FALSE

\* record.price > maxAmount, a comparison that is false on NaN
Exceeds(price, maxAmount) == price # NaN /\ price > maxAmount

\* sendPayment's switch: SOL, USDC, DNS402, or a custom token with a mint
Supported(record) == record.currency \in {"SOL", "USDC", "DNS402"} \/ record.mint # ""

\* throw new Error(...): the call is over. The messages of the policy and
\* payment-required errors carry the price and currency of fetch's record.
Throw(call, kind) ==
    [call EXCEPT !.pc = "done", !.payRecord = None, !.outcome = "error",
                 !.error = kind]

\* return response
Return(call, status) ==
    [call EXCEPT !.pc = "done", !.record = None, !.got = status,
                 !.outcome = "response", !.returned = status]

\* return session, from pay()
ReturnSession(call) ==
    [call EXCEPT !.pc = "done", !.payRecord = None, !.outcome = "session"]

\* fetchWithProof(url, init, proof): the request goes out with both headers.
fetchWithProof(call, proof, pc) ==
    [call EXCEPT !.pc = pc, !.payRecord = None,
                 !.http = Append(@, [signature |-> proof.signature,
                                     payer |-> proof.payer])]

\* pay() from its entry to its first await: the cache check, then discover().
\* A call made by fetch() goes on to fetchWithProof when the cache hits.
PayEntry(call) ==
    IF CacheHit(sessionCache, call.domain, now)
    THEN LET hit == [call EXCEPT !.session = Some(sessionCache[call.domain])] IN
         IF call.kind = "pay"
         THEN ReturnSession(hit)
         ELSE fetchWithProof(hit, sessionCache[call.domain].proof, "retry")
    ELSE [call EXCEPT !.pc = "payDiscover"]

FreeSlot(c) ==
    /\ calls[c].pc = "idle"
    /\ \A c2 \in Slots : c2 < c => calls[c2].pc # "idle"

\* pay(domain) is called.
PayStart(c, d) ==
    /\ FreeSlot(c)
    /\ calls' = [calls EXCEPT ![c] =
                    PayEntry([IdleCall EXCEPT !.kind = "pay", !.domain = d])]
    /\ UNCHANGED <<now, run, svars, cconfig, sessionCache, nextSig>>

\* fetch(url) is called: the cached proof is used when there is a live
\* session, otherwise the first attempt goes out without proof.
FetchStart(c, d) ==
    /\ FreeSlot(c)
    /\ LET call == [IdleCall EXCEPT !.kind = "fetch", !.domain = d] IN
       calls' = [calls EXCEPT ![c] =
           IF CacheHit(sessionCache, d, now)
           THEN fetchWithProof([call EXCEPT !.session = Some(sessionCache[d])],
                               sessionCache[d].proof, "cached")
           ELSE fetchWithProof(call, NoProof, "first")]
    /\ UNCHANGED <<now, run, svars, cconfig, sessionCache, nextSig>>

CachedResponse_Handle402(c, status) ==
    /\ calls[c].pc = "cached"
    /\ calls' = [calls EXCEPT ![c] =
                    IF status # 402 THEN Return(@, status)
                    ELSE [@ EXCEPT !.pc = "discover", !.got = status]]
    /\ UNCHANGED <<now, run, svars, cconfig, sessionCache, nextSig>>

\* The response to the request of a cache hit arrives and is returned.
CachedResponse(c, status) ==
    /\ calls[c].pc = "cached"
    /\ calls' = [calls EXCEPT ![c] = Return(@, status)]
    /\ UNCHANGED <<now, run, svars, cconfig, sessionCache, nextSig>>

\* The response to the first attempt arrives.
FirstResponse(c, status) ==
    /\ calls[c].pc = "first"
    /\ calls' = [calls EXCEPT ![c] =
                    IF status # 402 THEN Return(@, status)
                    ELSE [@ EXCEPT !.pc = "discover", !.got = status]]
    /\ UNCHANGED <<now, run, svars, cconfig, sessionCache, nextSig>>

\* fetch()'s await this.discover(domain) resumes: the record check, the
\* auto-pay check, then the call of this.pay(domain).
FetchDiscovered(c, txt) ==
    /\ calls[c].pc = "discover"
    /\ LET record == discover(calls[c].domain, txt)
           call == [calls[c] EXCEPT !.record = record]
       IN
       calls' = [calls EXCEPT ![c] =
           IF record = None THEN Throw(call, "discovery402")
           ELSE IF AutoPayEnabled
           THEN IF Exceeds(record[1].price, cconfig.autoPay.maxAmount)
                THEN Throw(call, "policy")
                ELSE IF record[1].currency # cconfig.autoPay.currency
                THEN Throw(call, "policy")
                ELSE PayEntry(call)
           ELSE Throw(call, "paymentRequired")]
    /\ UNCHANGED <<now, run, svars, cconfig, sessionCache, nextSig>>

PayDiscovered_NoCheck(c, txt) ==
    /\ calls[c].pc = "payDiscover"
    /\ calls' = [calls EXCEPT ![c] =
           [@ EXCEPT !.payRecord = discover(calls[c].domain, txt),
                     !.pc = "send", !.sends = @ + 1]]
    /\ UNCHANGED <<now, run, svars, cconfig, sessionCache, nextSig>>

\* pay()'s await this.discover(domain) resumes: the record check, then the
\* call of sendPayment.
PayDiscovered(c, txt) ==
    /\ calls[c].pc = "payDiscover"
    /\ LET record == discover(calls[c].domain, txt)
           call == [calls[c] EXCEPT !.payRecord = record]
       IN
       calls' = [calls EXCEPT ![c] =
           IF record = None THEN Throw(call, "discovery")
           ELSE [call EXCEPT !.pc = "send", !.sends = @ + 1]]
    /\ UNCHANGED <<now, run, svars, cconfig, sessionCache, nextSig>>

SendReturns_WriteFirst(c, ok) ==
    /\ calls[c].pc = "send"
    /\ ok => nextSig < MaxSends
    /\ LET call == calls[c]
           record == call.payRecord[1]
           proof == [signature |-> nextSig + 1, payer |-> walletAddress,
                     timestamp |-> now]
           session == [domain |-> call.domain, proof |-> proof,
                       expiresAt |-> now + (IF Truthy(record.ttl) THEN record.ttl
                                            ELSE DefaultTTL) * 1000]
           withSession == [call EXCEPT !.session = Some(session),
                                !.writes = IF cconfig.sessionCache THEN @ + 1 ELSE @]
       IN
       /\ sessionCache' = IF cconfig.sessionCache
                          THEN MapSet(sessionCache, call.domain, session)
                          ELSE sessionCache
       /\ IF ~ok \/ ~Supported(record)
          THEN /\ calls' = [calls EXCEPT ![c] = Throw(call, "ledger")]
               /\ UNCHANGED nextSig
          ELSE /\ nextSig' = nextSig + 1
               /\ calls' = [calls EXCEPT ![c] =
                      IF call.kind = "pay"
                      THEN ReturnSession(withSession)
                      ELSE fetchWithProof(withSession, proof, "retry")]
    /\ UNCHANGED <<now, run, svars, cconfig>>

\* await sendPayment(...) resumes. It failed: the error propagates. It
\* succeeded: the session is built and cached if caching is enabled, pay()
\* returns it, and fetch() retries with its proof.
SendReturns(c, ok) ==
    /\ calls[c].pc = "send"
    /\ ok => nextSig < MaxSends
    /\ LET call == calls[c]
           record == call.payRecord[1]
           proof == [signature |-> nextSig + 1, payer |-> walletAddress,
                     timestamp |-> now]
           session == [domain |-> call.domain, proof |-> proof,
                       expiresAt |-> now + (IF Truthy(record.ttl) THEN record.ttl
                                            ELSE DefaultTTL) * 1000]
           withSession == [call EXCEPT !.session = Some(session),
                                !.writes = IF cconfig.sessionCache THEN @ + 1 ELSE @]
       IN
       IF ~ok \/ ~Supported(record)
       THEN /\ calls' = [calls EXCEPT ![c] = Throw(call, "ledger")]
            /\ UNCHANGED <<sessionCache, nextSig>>
       ELSE /\ nextSig' = nextSig + 1
            /\ sessionCache' = IF cconfig.sessionCache
                               THEN MapSet(sessionCache, call.domain, session)
                               ELSE sessionCache
            /\ calls' = [calls EXCEPT ![c] =
                   IF call.kind = "pay"
                   THEN ReturnSession(withSession)
                   ELSE fetchWithProof(withSession, proof, "retry")]
    /\ UNCHANGED <<now, run, svars, cconfig>>

RetryResponse_PayAgain(c, status) ==
    /\ calls[c].pc = "retry"
    /\ calls' = [calls EXCEPT ![c] =
                    IF status = 402 THEN PayEntry([@ EXCEPT !.got = status])
                    ELSE Return(@, status)]
    /\ UNCHANGED <<now, run, svars, cconfig, sessionCache, nextSig>>

\* The response to the retry arrives and is returned as it is.
RetryResponse(c, status) ==
    /\ calls[c].pc = "retry"
    /\ calls' = [calls EXCEPT ![c] = Return(@, status)]
    /\ UNCHANGED <<now, run, svars, cconfig, sessionCache, nextSig>>

\* The caller has taken the result of a finished call.
Release(c) ==
    /\ calls[c].pc = "done"
    /\ calls' = [calls EXCEPT ![c] = IdleCall]
    /\ UNCHANGED <<now, run, svars, cconfig, sessionCache, nextSig>>

\* clearCache()
clearCache ==
    /\ sessionCache # <<>>
    /\ sessionCache' = <<>>
    /\ UNCHANGED <<now, run, svars, cconfig, calls, nextSig>>

\* ------------------------------------------- runs of codec and discovery
NoConfig ==
    [ price |-> 0, currency |-> <<>>, wallet |-> <<>>, ttl |-> Undefined,
      model |-> <<>>, callback |-> <<>>, mint |-> <<>> ]

NoLookup == [resolver |-> FALSE, throws |-> FALSE, records |-> <<>>, txt |-> <<>>]

NoPayment ==
    [ chain |-> <<>>, rpcOk |-> FALSE, expectedRecipient |-> "",
      expectedAmount |-> 0, currency |-> "" ]

NoRun ==
    [ kind |-> "", stage |-> "",
      config |-> NoConfig,     \* the argument of generateRecord
      txt |-> <<>>,            \* the text generated, or received
      record |-> None,         \* parseRecord(txt)
      again |-> <<>>,          \* generateRecord(parseRecord(txt))
      lookup |-> NoLookup,     \* what the DNS collaborator does when asked
      result |-> [threw |-> FALSE, value |-> None],    \* discover(domain)
      payment |-> NoPayment,   \* the arguments of verifyPayment and the chain
      valid |-> FALSE ]        \* verifyPayment(...)

\* Valid terms: price >= 0, a currency symbol, a wallet, and every
\* combination of the optional ttl, model, callback URL and mint.
ValidConfigs ==
    [ price : {0, 50, 100}, currency : {<<"USDC">>, <<"SOL">>},
      wallet : {<<"W1">>}, ttl : {Undefined, 60},
      model : {<<>>, <<"session">>},
      callback : {<<>>, <<"https://h/cb">>, <<"https://h/cb?order", "=", "1">>},
      mint : {<<>>, <<"M1">>} ]

\* Texts as they are found in TXT records: complete, with a required field
\* missing or empty, with another version, with prices that are no number
\* or negative, with spaces, unknown keys, junk and repeated keys.
Full ==
    <<Part("v", "dns402"), Part("p", "1"), Part("c", "usdc"),
      Part("n", "Solana"), Part("w", "W1")>>
Without(k) == JoinWith(SelectSeq(Full, LAMBDA q : q[1] # k), ";")
With(k, v) ==
    JoinWith([i \in 1..Len(Full) |->
                 IF Full[i][1] = k THEN <<k, "=">> \o v ELSE Full[i]], ";")
HandWrittenTxts ==
    {JoinWith(Full, ";"), <<>>, <<";", " ", ";">>}
    \cup {Without(k) : k \in {"v", "p", "c", "n", "w"}}
    \cup {With("v", <<"dns401">>), With("p", <<"abc">>), With("p", <<"-1">>),
          With("p", <<>>), With("p", <<" ", "0.5", " ">>),
          With("w", <<"W1", "=", "x">>), With("c", <<" ">>),
          JoinWith(Full \o <<<<"junk">>, Part("x", "1")>>, ";"),
          JoinWith(Full \o <<Part("p", "2")>>, ";")}

\* TXT records of an answer, each a sequence of chunks: one chunk, two
\* chunks cut inside a word, terms that decode, a stray record, no chunk.
TxtRecords ==
    { <<TxtOf("1", "usdc", "60")>>,
      << <<"v", "=", "dns">>, <<"402", ";">> \o JoinWith(Tail(Full), ";") >>,
      <<TxtOf("2", "USDC", "0")>>,
      << <<"google-site-verification", "=", "abc">> >>,
      <<>> }

DnsLookups ==
    {[NoLookup EXCEPT !.records = rs] :
        rs \in UNION {[1..n -> TxtRecords] : n \in 0..MaxRecords}}
    \cup {[NoLookup EXCEPT !.throws = TRUE]}
    \cup {[NoLookup EXCEPT !.resolver = TRUE, !.txt = t] :
             t \in {<<>>, TxtOf("1", "usdc", "60"), With("v", <<"dns401">>)}}
    \cup {[NoLookup EXCEPT !.resolver = TRUE, !.throws = TRUE]}

Runs ==
    {[NoRun EXCEPT !.kind = "encode", !.stage = "config", !.config = c] :
        c \in ValidConfigs}
    \cup {[NoRun EXCEPT !.kind = "decode", !.stage = "text", !.txt = t] :
             t \in HandWrittenTxts}
    \cup {[NoRun EXCEPT !.kind = "discover", !.stage = "lookup", !.lookup = l] :
             l \in DnsLookups}

\* Calls of verifyPayment for signature S1: the chain holds no transaction
\* under it, one without meta, or one of LedgerTxs; the query answers or
\* throws; the payment expected is 1.00 or nothing, in SOL or in a token.
Payments ==
    [ chain : {<<>>} \cup {[sig \in {"S1"} |-> tx] : tx \in LedgerTxs \cup {TxNoMeta}},
      rpcOk : BOOLEAN, expectedRecipient : {"W1", "W2"},
      expectedAmount : {0, 100}, currency : {"SOL", "USDC"} ]

VerifyRuns ==
    {[NoRun EXCEPT !.kind = "verify", !.stage = "payment", !.payment = q] :
        q \in Payments}

\* verifyPayment(connection, "S1", ...) is called and settles.
Verify ==
    /\ run.stage = "payment"
    /\ run' = [run EXCEPT
                  !.stage = "verified",
                  !.valid = verifyPayment(run.payment.chain, run.payment.rpcOk, "S1",
                                          run.payment.expectedRecipient,
                                          run.payment.expectedAmount,
                                          run.payment.currency)]
    /\ UNCHANGED <<now, svars, cvars>>

\* generateRecord(config) is called.
Generate ==
    /\ run.stage = "config"
    /\ run' = [run EXCEPT !.stage = "text", !.txt = generateRecord(run.config)]
    /\ UNCHANGED <<now, svars, cvars>>

\* parseRecord(txt) is called.
Parse ==
    /\ run.stage = "text"
    /\ run' = [run EXCEPT !.stage = "parsed", !.record = parseRecord(run.txt)]
    /\ UNCHANGED <<now, svars, cvars>>

\* generateRecord is called with the record parseRecord returned.
Regenerate ==
    /\ run.stage = "parsed" /\ run.record # None
    /\ run' = [run EXCEPT !.stage = "again",
                          !.again = generateRecord(AsConfig(run.record[1]))]
    /\ UNCHANGED <<now, svars, cvars>>

\* discover(domain) is called and settles.
Discover ==
    /\ run.stage = "lookup"
    /\ run' = [run EXCEPT !.stage = "found",
                          !.result = DNS402Client_discover(run.lookup)]
    /\ UNCHANGED <<now, svars, cvars>>

\* ------------------------------------------------------ specifications
Tick ==
    /\ now < MaxTicks * TickMs
    /\ now' = now + TickMs
    /\ UNCHANGED <<svars, cvars, run>>

ServerInit(configs) ==
    /\ sconfig \in configs
    /\ sessions = <<>>
    /\ nextSweep = SweepInterval
    /\ reqs = [r \in Slots |-> IdleReq]
    /\ ledger = [sig \in {"S2"} |-> ChainTx(sig)]
    /\ granted = [s \in Sigs |-> 0]

ClientInit(configs) ==
    /\ cconfig \in configs
    /\ sessionCache = <<>>
    /\ calls = [c \in Slots |-> IdleCall]
    /\ nextSig = 0

OneServerConfig ==
    {[wallet |-> "W1", price |-> 100, currency |-> "SOL", sessionTTL |-> 60,
      onPayment |-> FALSE]}

OneClientConfig ==
    {[autoPay |-> [set |-> TRUE, enabled |-> TRUE, maxAmount |-> 100,
                   currency |-> "USDC"],
      sessionCache |-> TRUE]}

OneTxt == {TxtOf("1", "usdc", "60")}

ServerNext ==
    \/ \E r \in Slots, proof \in Sigs \cup {""}, payer \in Payers \cup {""} :
           HandleRequest(r, proof, payer)
    \/ \E r \in Slots, rpcOk \in BOOLEAN : VerifyReturns(r, rpcOk)
    \/ \E r \in Slots, ok \in BOOLEAN : OnPaymentReturns(r, ok)
    \/ \E r \in Slots : Finish(r)
    \/ Sweep
    \/ \E sig \in Sigs : Confirm(sig)
    \/ Tick

ClientNext ==
    \/ \E c \in Slots, d \in Domains : PayStart(c, d)
    \/ \E c \in Slots, d \in Domains : FetchStart(c, d)
    \/ \E c \in Slots, status \in {200, 402} : CachedResponse(c, status)
    \/ \E c \in Slots, status \in {200, 402} : FirstResponse(c, status)
    \/ \E c \in Slots, txt \in Lookups : FetchDiscovered(c, txt)
    \/ \E c \in Slots, txt \in Lookups : PayDiscovered(c, txt)
    \/ \E c \in Slots, ok \in BOOLEAN : SendReturns(c, ok)
    \/ \E c \in Slots, status \in {200, 402} : RetryResponse(c, status)
    \/ \E c \in Slots : Release(c)
    \/ clearCache
    \/ Tick

\* One server request and one client call at a time, next to the sweep and
\* the clock: the session stores of both sides under every interleaving of
\* writes, lookups, sweeps and clearCache().
StoreNext ==
    \/ \E proof \in {"S1", ""}, payer \in Payers \cup {""} :
           HandleRequest(1, proof, payer)
    \/ \E rpcOk \in BOOLEAN : VerifyReturns(1, rpcOk)
    \/ Finish(1)
    \/ Sweep
    \/ Confirm("S1")
    \/ \E d \in Domains : PayStart(1, d)
    \/ \E d \in Domains : FetchStart(1, d)
    \/ CachedResponse(1, 200)
    \/ FirstResponse(1, 402)
    \/ \E txt \in OneTxt : FetchDiscovered(1, txt)
    \/ \E txt \in OneTxt : PayDiscovered(1, txt)
    \/ \E ok \in BOOLEAN : SendReturns(1, ok)
    \/ RetryResponse(1, 200)
    \/ Release(1)
    \/ clearCache
    \/ Tick

StoreInit ==
    /\ now = 0
    /\ run = NoRun
    /\ ServerInit(OneServerConfig)
    /\ ClientInit(OneClientConfig)

StoreSpec == StoreInit /\ [][StoreNext]_vars

\* The middleware under every server configuration.
ServerSpecInit ==
    /\ now = 0
    /\ run = NoRun
    /\ ServerInit(ServerConfigs)
    /\ ClientInit(OneClientConfig)

ServerSpec == ServerSpecInit /\ [][ServerNext]_vars

\* The client under every client configuration.
ClientSpecInit ==
    /\ now = 0
    /\ run = NoRun
    /\ ServerInit(OneServerConfig)
    /\ ClientInit(ClientConfigs)

ClientSpec == ClientSpecInit /\ [][ClientNext]_vars

\* The codec and discovery over every input of Runs.
CodecNext == Generate \/ Parse \/ Regenerate \/ Discover

CodecInit ==
    /\ now = 0
    /\ run \in Runs
    /\ ServerInit(OneServerConfig)
    /\ ClientInit(OneClientConfig)

CodecSpec == CodecInit /\ [][CodecNext]_vars

\* The verifier over every call of Payments.
VerifyNext == Verify

VerifyInit ==
    /\ now = 0
    /\ run \in VerifyRuns
    /\ ServerInit(OneServerConfig)
    /\ ClientInit(OneClientConfig)

VerifySpec == VerifyInit /\ [][VerifyNext]_vars

\* ------------------------------------------------------- server claims

\* The ledger holds a transaction under the request's proof that pays the
\* configured wallet the configured price.
LedgerAccepts(q) ==
    verifyPayment(ledger, TRUE, q.proof, sconfig.wallet, sconfig.price,
                  sconfig.currency)

\* C1: a request is forwarded (next() is called) only in a step in which
\* either the session map holds a live entry (expiresAt > now) for the
\* request's payer header, or ledger-verify has returned true for the proof
\* of this same request (and the ledger does hold such a payment).
C1_ForwardOnlyOnSessionOrProof ==
    [][\A r \in Slots :
          (~reqs[r].forwarded /\ reqs'[r].forwarded) =>
              \/ /\ reqs'[r].payer # ""
                 /\ reqs'[r].payer \in DOMAIN sessions
                 /\ sessions[reqs'[r].payer].expiresAt > now
              \/ /\ reqs[r].pc \in {"verify", "onPayment"}
                 /\ reqs'[r].isValid
                 /\ reqs'[r].proof = reqs[r].proof
                 /\ LedgerAccepts(reqs'[r])]_vars

\* C1 witness: one request was forwarded on a session hit while another was
\* forwarded after its own proof was verified.
C1_Witness ==
    \E r1, r2 \in Slots :
        /\ reqs[r1].forwarded /\ ~reqs[r1].isValid
        /\ reqs[r2].forwarded /\ reqs[r2].isValid

\* C2 (as claimed): each signature the server accepted has created at most
\* one session, whatever the payer header and however long ago.
C2_NoReplay == \A s \in Sigs : granted[s] <= 1

\* C10: when ledger-verify returns false the request ends with status 403,
\* is not answered 402, is not forwarded, and the session map is unchanged.
C10_RejectIs403 ==
    [][\A r \in Slots :
          (reqs[r].pc = "verify" /\ reqs'[r].pc # "verify" /\ ~reqs'[r].isValid) =>
              /\ reqs'[r].pc = "done"
              /\ reqs'[r].status = 403
              /\ ~reqs'[r].forwarded
              /\ sessions' = sessions]_vars

\* C10 witness: a request whose proof names no transaction on the ledger was
\* verified and answered 403.
C10_Witness ==
    \E r \in Slots :
        /\ reqs[r].status = 403
        /\ reqs[r].proof \notin DOMAIN ledger

\* ------------------------------------------------- session store claims

\* C9: a session stored under key k with expiry e is hit by every lookup of
\* k at a time < e and missed at every time >= e: the server's session
\* check forwards a request of payer k exactly while now < e, the client's
\* pay() and fetch() take the cached path for domain k exactly while
\* now < e, getSession(k) returns the entry exactly while now < e, and the
\* sweep removes an entry only at a time >= e, when no lookup returns it.
C9_SessionMonotonic ==
    [][/\ \A k \in DOMAIN sessions :
            LET e == sessions[k].expiresAt IN
            /\ \A r \in Slots :
                  (reqs[r].pc = "idle" /\ reqs'[r].pc # "idle" /\ reqs'[r].payer = k)
                  => ((reqs'[r].pc = "done" /\ reqs'[r].forwarded) <=> now < e)
            /\ k \notin DOMAIN sessions' => now >= e
            /\ (k \in DOMAIN sessions' /\ sessions'[k] # sessions[k]) =>
                  \E r \in Slots : reqs[r].pc = "verify" /\ reqs'[r].isValid
       /\ \A k \in DOMAIN sessionCache :
            LET e == sessionCache[k].expiresAt IN
            /\ (getSession(k) = Some(sessionCache[k])) <=> now < e
            /\ (getSession(k) = None) <=> now >= e
            /\ \A c \in Slots :
                  (calls[c].pc = "idle" /\ calls'[c].pc # "idle" /\ calls'[c].domain = k)
                  => ((calls'[c].session = Some(sessionCache[k])) <=> now < e)
            /\ k \notin DOMAIN sessionCache' => sessionCache' = <<>>]_vars

\* C9 witness: on the server an expired entry has outlived its expiry time in
\* the map, unswept, while the client holds an expired entry as well.
C9_Witness ==
    /\ \E k \in DOMAIN sessions : now >= sessions[k].expiresAt
    /\ \E k \in DOMAIN sessionCache : now >= sessionCache[k].expiresAt


\* ------------------------------------------------------- client claims

\* The requests of a call after its first attempt without proof.
Retries(call) ==
    IF call.http # <<>> /\ call.http[1].signature = 0 THEN Len(call.http) - 1 ELSE 0

ProofHeaders(session) ==
    [signature |-> session.proof.signature, payer |-> session.proof.payer]

\* The auto-pay policy rejects the terms: price > maxAmount or another currency.
PolicyRejects(record) ==
    \/ (record.price # NaN /\ record.price > cconfig.autoPay.maxAmount)
    \/ record.currency # cconfig.autoPay.currency

\* C3: a fetch() call never calls ledger-send twice and never retries twice;
\* with auto-pay enabled, once its ledger-send has succeeded it has made
\* exactly one send and exactly one retry, the retry carries the proof of
\* that payment, and the retry's response (a 402 as well) is what the call
\* returns, after which the call is over.
C3_SingleRetry ==
    \A c \in Slots :
        LET call == calls[c] IN
        call.kind = "fetch" =>
            /\ call.sends <= 1
            /\ Retries(call) <= 1
            /\ Len(call.http) <= 2
            /\ (/\ cconfig.autoPay.set /\ cconfig.autoPay.enabled
                /\ call.sends = 1 /\ call.pc # "send" /\ call.error # "ledger")
               => /\ call.pc \in {"retry", "done"}
                  /\ Retries(call) = 1
                  /\ call.http[2] = ProofHeaders(call.session[1])
                  /\ call.pc = "done" =>
                        /\ call.outcome = "response"
                        /\ call.returned = call.got

\* C3 witness: a fetch() call paid once, retried once, got 402 on the retry
\* and returned it.
C3_Witness ==
    \E c \in Slots :
        /\ calls[c].kind = "fetch" /\ calls[c].pc = "done"
        /\ calls[c].sends = 1 /\ Retries(calls[c]) = 1
        /\ calls[c].outcome = "response" /\ calls[c].returned = 402

\* A pay(d) call starts in slot c2 while slot c1 still holds the session s
\* that an earlier pay(d) call returned, before s expires.
LaterPay(c1, c2) ==
    /\ c1 # c2
    /\ calls[c1].pc = "done" /\ calls[c1].kind = "pay"
    /\ calls[c1].outcome = "session"
    /\ calls[c2].pc = "idle" /\ calls'[c2].kind = "pay"
    /\ calls'[c2].domain = calls[c1].domain
    /\ now < calls[c1].session[1].expiresAt

SameSessionNoSend(c1, c2) ==
    /\ calls'[c2].pc = "done"
    /\ calls'[c2].outcome = "session"
    /\ calls'[c2].session = calls[c1].session
    /\ calls'[c2].sends = 0

\* C4 (as claimed): for every client configuration, a pay(d) call made after
\* a pay(d) call has succeeded and before that session expires returns the
\* same session and makes no ledger-send call.
C4_PayIdempotentAnyConfig ==
    [][\A c1, c2 \in Slots : LaterPay(c1, c2) => SameSessionNoSend(c1, c2)]_vars

\* C4 (amended): with sessionCache enabled, a pay(d) call that succeeds
\* leaves its session as the cache entry of d, and a later pay(d) call made
\* before that session expires, while it is still the cache entry of d,
\* returns the same session and makes no ledger-send call.
C4_PayIdempotentWhenCached ==
    [][/\ \A c1, c2 \in Slots :
            (/\ LaterPay(c1, c2)
             /\ cconfig.sessionCache
             /\ calls[c1].domain \in DOMAIN sessionCache
             /\ sessionCache[calls[c1].domain] = calls[c1].session[1])
            => SameSessionNoSend(c1, c2)
       /\ \A c \in Slots :
            (/\ cconfig.sessionCache
             /\ calls[c].pc # "done" /\ calls'[c].pc = "done"
             /\ calls'[c].kind = "pay" /\ calls'[c].outcome = "session")
            => /\ calls'[c].domain \in DOMAIN sessionCache'
               /\ sessionCache'[calls'[c].domain] = calls'[c].session[1]]_vars

\* C4 witness: one pay() call paid and returned a session, a later pay()
\* call returned the same session without a ledger-send call.
C4_Witness ==
    \E c1, c2 \in Slots :
        /\ calls[c1].pc = "done" /\ calls[c1].kind = "pay"
        /\ calls[c2].pc = "done" /\ calls[c2].kind = "pay"
        /\ calls[c1].outcome = "session" /\ calls[c1].sends = 1
        /\ calls[c2].outcome = "session" /\ calls[c2].sends = 0
        /\ calls[c1].session = calls[c2].session

\* C5: with auto-pay enabled, a fetch() call whose discovered terms have
\* price > maxAmount or a currency other than the configured one fails with
\* the policy error, having made no ledger-send call, no cache write and no
\* retry.
C5_PolicyEnforced ==
    \A c \in Slots :
        LET call == calls[c] IN
        (/\ call.kind = "fetch"
         /\ cconfig.autoPay.set /\ cconfig.autoPay.enabled
         /\ call.record # None /\ PolicyRejects(call.record[1]))
        => /\ call.pc = "done"
           /\ call.outcome = "error" /\ call.error = "policy"
           /\ call.sends = 0 /\ call.writes = 0
           /\ Retries(call) = 0 /\ call.session = None

\* C5 witness: a fetch() call failed with the policy error on terms whose
\* price exceeds maxAmount.
C5_Witness ==
    \E c \in Slots :
        /\ calls[c].error = "policy"
        /\ calls[c].record # None
        /\ calls[c].record[1].price > cconfig.autoPay.maxAmount

\* C6 (as claimed): with an auto-pay policy enabled, a standalone pay() call
\* whose discovered terms the policy rejects makes no ledger-send call.
C6_PayEnforcesPolicy ==
    \A c \in Slots :
        LET call == calls[c] IN
        (/\ call.kind = "pay"
         /\ cconfig.autoPay.set /\ cconfig.autoPay.enabled
         /\ call.payRecord # None /\ PolicyRejects(call.payRecord[1]))
        => call.sends = 0

\* C7: with auto-pay disabled or not configured, a fetch() call never makes
\* a ledger-send call, a cache write or a retry, and one that got a 402 and
\* discovered terms fails with the payment-required error.
C7_NoAutoPayNoPayment ==
    \A c \in Slots :
        LET call == calls[c] IN
        (call.kind = "fetch" /\ ~(cconfig.autoPay.set /\ cconfig.autoPay.enabled))
        => /\ call.sends = 0 /\ call.writes = 0 /\ Retries(call) = 0
           /\ call.record # None =>
                 /\ call.pc = "done"
                 /\ call.outcome = "error" /\ call.error = "paymentRequired"
                 /\ call.got = 402
                 /\ Len(call.http) = 1

\* C7 witness: auto-pay is configured but disabled and a fetch() call failed
\* with the payment-required error.
C7_Witness ==
    \E c \in Slots :
        /\ cconfig.autoPay.set /\ ~cconfig.autoPay.enabled
        /\ calls[c].error = "paymentRequired"
        /\ calls[c].record # None

\* The discovery that call c was waiting for has returned null in this step:
\* the local 'record' of fetch(), or of pay(), holds no record.
DiscoveredNull(c) ==
    \/ /\ calls[c].pc = "discover" /\ calls'[c].pc # "discover"
       /\ calls'[c].record = None
    \/ /\ calls[c].pc = "payDiscover" /\ calls'[c].pc # "payDiscover"
       /\ calls'[c].payRecord = None

\* C8: when the discovery of a fetch() call after its 402, or of a pay()
\* call, returns null, the call fails with the discovery error in that
\* step, having made no ledger-send call, no cache write and no retry, and
\* the session cache is left as it was.
C8_NoRecordNoPayment ==
    [][\A c \in Slots :
          DiscoveredNull(c) =>
              /\ calls'[c].pc = "done"
              /\ calls'[c].outcome = "error"
              /\ calls'[c].error =
                    (IF calls[c].pc = "discover" THEN "discovery402" ELSE "discovery")
              /\ calls'[c].sends = 0 /\ calls'[c].writes = 0
              /\ Retries(calls'[c]) = 0
              /\ Len(calls'[c].http) = (IF calls'[c].kind = "pay" THEN 0 ELSE 1)
              /\ calls'[c].session = None
              /\ sessionCache' = sessionCache
              /\ nextSig' = nextSig]_vars

\* C8 witness: a fetch() call failed on its discovery and a pay() call
\* failed on its discovery.
C8_Witness ==
    \E c1, c2 \in Slots :
        /\ calls[c1].kind = "fetch" /\ calls[c1].error = "discovery402"
        /\ calls[c2].kind = "pay" /\ calls[c2].error = "discovery"

\* ------------------------------------------- server claims, continued

\* C11 (as claimed): a request that finds no live session is answered with
\* the 402 challenge, and not forwarded, exactly when it carries neither the
\* proof nor the payer header; every other such request, in particular every
\* one that carries a proof, goes to ledger-verify.
C11_ChallengeIffBothAbsent ==
    [][\A r \in Slots :
          (/\ reqs[r].pc = "idle" /\ reqs'[r].pc # "idle"
           /\ ~SessionLive(sessions, reqs'[r].payer, now)) =>
              IF reqs'[r].proof = "" /\ reqs'[r].payer = ""
              THEN /\ reqs'[r].pc = "done" /\ reqs'[r].status = 402
                   /\ ~reqs'[r].forwarded
              ELSE reqs'[r].pc = "verify"]_vars

\* C12: once a proof was accepted for payer P at time t (the entry of P then
\* expires at t + TTL), the entry stays, with an expiry that never moves
\* back, as long as it has not expired; and every request that carries payer
\* P while now < expiresAt is forwarded at once, without a call of
\* ledger-verify, whether it carries a proof or not and whatever the proof.
C12_SessionHit ==
    [][/\ \A r \in Slots :
             (reqs[r].pc = "verify" /\ reqs'[r].isValid) =>
                 /\ reqs[r].payer \in DOMAIN sessions'
                 /\ sessions'[reqs[r].payer].expiresAt = now + sessionTTL
       /\ \A p \in DOMAIN sessions :
             sessions[p].expiresAt >= now =>
                 /\ p \in DOMAIN sessions'
                 /\ sessions'[p].expiresAt >= sessions[p].expiresAt
       /\ \A r \in Slots :
             (/\ reqs[r].pc = "idle" /\ reqs'[r].pc # "idle"
              /\ reqs'[r].payer \in DOMAIN sessions
              /\ now < sessions[reqs'[r].payer].expiresAt) =>
                 /\ reqs'[r].pc = "done" /\ reqs'[r].forwarded
                 /\ ~reqs'[r].isValid /\ reqs'[r].status = 0
                 /\ sessions' = sessions /\ granted' = granted]_vars

\* C12 witness: within the window of a session two requests of its payer
\* were forwarded with no verification, one with no proof header and one
\* with a proof the ledger would refuse.
C12_Witness ==
    \E r1, r2 \in Slots :
        /\ reqs[r1].forwarded /\ ~reqs[r1].isValid /\ reqs[r1].proof = ""
        /\ reqs[r2].forwarded /\ ~reqs[r2].isValid /\ reqs[r2].proof = "S2"
        /\ reqs[r1].payer = reqs[r2].payer
        /\ SessionLive(sessions, reqs[r1].payer, now)

\* C13: the step in which verification succeeds writes, under the payer of
\* the request, the session {payer, signature, expiresAt = now + TTL * 1000}
\* with TTL the configured one or 3600 when none is configured, replacing
\* whatever entry the payer had; in that step the hook, if there is one, has
\* not returned and the request is not forwarded before the write: a
\* verified request is forwarded in that step or in a later one.
C13_SessionWrittenFirst ==
    [][\A r \in Slots :
          /\ (reqs[r].pc = "verify" /\ reqs'[r].isValid) =>
                /\ sessions' =
                      MapSet(sessions, reqs[r].payer,
                             [payer |-> reqs[r].payer,
                              signature |-> reqs[r].proof,
                              expiresAt |->
                                  now + (IF sconfig.sessionTTL = 0 THEN 3600
                                         ELSE sconfig.sessionTTL) * 1000])
                /\ IF sconfig.onPayment
                   THEN reqs'[r].pc = "onPayment" /\ ~reqs'[r].forwarded
                   ELSE reqs'[r].pc = "done" /\ reqs'[r].forwarded
          /\ (~reqs[r].forwarded /\ reqs'[r].forwarded /\ reqs'[r].isValid) =>
                \/ reqs[r].pc = "onPayment"
                \/ /\ reqs[r].pc = "verify"
                   /\ reqs[r].payer \in DOMAIN sessions'
                   /\ sessions'[reqs[r].payer].signature = reqs[r].proof]_vars

\* C13 witness: with no TTL configured, two verified requests of the same
\* payer wrote its session one after the other, the second at a later time
\* over the entry of the first, and a hook is still pending.
C13_Witness ==
    /\ sconfig.sessionTTL = 0
    /\ granted["S1"] = 2
    /\ DOMAIN sessions = {"P1"}
    /\ sessions["P1"].expiresAt = TickMs + DefaultTTL * 1000
    /\ \E r \in Slots : reqs[r].pc = "onPayment" /\ reqs[r].payer = "P1"

\* C14 (as claimed): a request whose proof was verified ends forwarded,
\* whether the onPayment hook returned, threw or rejected.
C14_HookFailureStillForwards ==
    \A r \in Slots : (reqs[r].pc = "done" /\ reqs[r].isValid) => reqs[r].forwarded

\* ------------------------------------------- client claims, continued

\* The call has had no successful ledger-send: it is waiting for its first
\* response, for a discovery or for the send, or it has failed.
Unpaid(call) ==
    \/ call.pc \in {"first", "discover", "payDiscover", "send"}
    \/ call.pc = "done" /\ call.outcome = "error"

\* C15: a call whose send failed, or that is left waiting in discovery or
\* payment for ever, has written no session, holds none and has issued no
\* retry; the step in which a call fails leaves the session cache and the
\* ledger as they were; and the cache changes only in clearCache() or in the
\* step in which a send has succeeded, which stores that call's session.
C15_FailureLeavesCache ==
    [][/\ \A c \in Slots :
             Unpaid(calls'[c]) =>
                 /\ calls'[c].writes = 0 /\ calls'[c].session = None
                 /\ Retries(calls'[c]) = 0
                 /\ Len(calls'[c].http) <= 1
       /\ \A c \in Slots :
             (calls[c].pc # "done" /\ calls'[c].outcome = "error") =>
                 sessionCache' = sessionCache /\ nextSig' = nextSig
       /\ sessionCache' # sessionCache =>
             \/ sessionCache' = <<>> /\ calls' = calls
             \/ \E c \in Slots :
                    /\ calls[c].pc = "send" /\ nextSig' = nextSig + 1
                    /\ calls'[c].session # None /\ calls'[c].writes = 1
                    /\ sessionCache' = MapSet(sessionCache, calls[c].domain,
                                              calls'[c].session[1])]_vars

\* C15 witness: the send of a fetch() call has failed and another call is
\* left waiting for its send, while the cache still holds exactly the
\* session an earlier call had stored.
C15_Witness ==
    \E c1, c2 \in Slots :
        /\ calls[c1].kind = "fetch" /\ calls[c1].error = "ledger"
        /\ calls[c2].pc = "send"
        /\ nextSig = 1
        /\ DOMAIN sessionCache = {"d1"}
        /\ sessionCache["d1"].proof.signature = 1

\* C16 (as claimed), for a client that caches sessions: the step in which a
\* send succeeds stores under the call's domain the session {domain, proof
\* returned by the send, expiresAt = now + ttl * 1000}, ttl being the ttl of
\* the terms and 3600 only when the terms carry none; a fetch() call goes on
\* to its retry with that proof's signature and payer as headers; and a
\* lookup of the domain made then returns that session if it is unexpired.
C16_SessionFromTerms ==
    [][\A c \in Slots :
          (/\ calls[c].pc = "send" /\ calls'[c].pc # "send"
           /\ nextSig' = nextSig + 1 /\ cconfig.sessionCache) =>
              LET terms == calls[c].payRecord[1]
                  ttl == IF terms.ttl = Undefined THEN 3600 ELSE terms.ttl
                  session == [domain |-> calls[c].domain,
                              proof |-> [signature |-> nextSig',
                                         payer |-> walletAddress,
                                         timestamp |-> now],
                              expiresAt |-> now + ttl * 1000]
              IN  /\ calls[c].domain \in DOMAIN sessionCache'
                  /\ sessionCache'[calls[c].domain] = session
                  /\ calls'[c].session = Some(session)
                  /\ calls[c].kind = "fetch" =>
                        /\ calls'[c].pc = "retry"
                        /\ calls'[c].http[Len(calls'[c].http)] = ProofHeaders(session)
                  /\ now < session.expiresAt =>
                        CacheHit(sessionCache', calls[c].domain, now)]_vars

\* --------------------------------------------------------- codec claims

\* The record rec holds the values of the terms t, the model being
\* per-request where t names none.
ValueEqual(t, rec) ==
    /\ rec.version = "dns402" /\ rec.network = "solana"
    /\ rec.price = t.price /\ rec.ttl = t.ttl
    /\ rec.currency = Join(t.currency) /\ rec.wallet = Join(t.wallet)
    /\ rec.model = (IF t.model = <<>> THEN "per-request" ELSE Join(t.model))
    /\ rec.callback = Join(t.callback) /\ rec.mint = Join(t.mint)

\* C17 (as claimed): for valid terms t, parseRecord(generateRecord(t)) is a
\* record and is value-equal to t.
C17_DecodeEncodeIdentity ==
    (run.kind = "encode" /\ run.stage \in {"parsed", "again"}) =>
        run.record # None /\ ValueEqual(run.config, run.record[1])

\* The keys of the parts of a text, in order.
Keys(txt) ==
    [i \in 1..Len(parts(txt)) |-> Join(Split(parts(txt)[i], "=")[1])]

ExpectedKeys(t) ==
    <<"v", "p", "c", "n", "w">>
    \o (IF t.ttl # Undefined THEN <<"t">> ELSE <<>>)
    \o (IF t.model # <<>> THEN <<"m">> ELSE <<>>)
    \o (IF t.callback # <<>> THEN <<"cb">> ELSE <<>>)
    \o (IF t.mint # <<>> THEN <<"mint">> ELSE <<>>)

\* C18 (as claimed): a text x produced by generateRecord has the keys v, p,
\* c, n, w and then t, m, cb, mint for the optional fields its terms hold,
\* and generateRecord(parseRecord(x)) is x again.
C18_EncodeDecodeIdentity ==
    (run.kind = "encode" /\ run.stage = "again") =>
        /\ Keys(run.txt) = ExpectedKeys(run.config)
        /\ Join(run.again) = Join(run.txt)

\* C19 (as claimed): parseRecord returns null for a text that lacks one of
\* v, p, c, n, w, whose v is not dns402, or whose p is no number or a
\* negative one; so the price of a record it returns is a number >= 0.
C19_RejectsBadPrice ==
    run.stage \in {"parsed", "again"} =>
        /\ ( \/ \E k \in {"v", "p", "c", "n", "w"} : DataOf(run.txt, k) = ""
             \/ DataOf(run.txt, "v") # "dns402"
             \/ ParseFloat(DataOf(run.txt, "p")) = NaN
             \/ ParseFloat(DataOf(run.txt, "p")) < 0 ) => run.record = None
        /\ run.record # None =>
              run.record[1].price # NaN /\ run.record[1].price >= 0

\* C20 (as claimed): discovery never throws; it returns null when the lookup
\* fails; and for an answer of TXT records it returns the decoding of the
\* first record, chunks joined, that decodes, null when none does.
C20_FirstSuccessWins ==
    run.stage = "found" =>
        LET l == run.lookup
            texts == [i \in 1..Len(l.records) |-> Concat(l.records[i])]
            ok == {i \in 1..Len(texts) : parseRecord(texts[i]) # None}
        IN  /\ ~run.result.threw
            /\ l.throws => run.result.value = None
            /\ (~l.resolver /\ ~l.throws) =>
                  run.result.value =
                      (IF ok = {} THEN None
                       ELSE parseRecord(texts[CHOOSE i \in ok : \A j \in ok : i <= j]))
            /\ (l.resolver /\ ~l.throws) =>
                  run.result.value =
                      (IF l.txt = <<>> THEN None ELSE parseRecord(l.txt))

\* ----------------------------------------------- challenge and verifier

\* C21: every request answered 402 carries the configured price, currency
\* and wallet, the network solana and the session TTL (3600 when none is
\* configured) in its DNS402-* headers and in its JSON body, the values of
\* the headers being those of the body written out; and only a 402 carries
\* a challenge.
C21_ChallengeCarriesTerms ==
    \A r \in Slots :
        /\ reqs[r].challenge # None => reqs[r].status = 402
        /\ reqs[r].status = 402 =>
              /\ reqs[r].challenge # None
              /\ LET headers == reqs[r].challenge[1].headers
                     body == reqs[r].challenge[1].body
                     ttl == IF sconfig.sessionTTL = 0 THEN 3600
                            ELSE sconfig.sessionTTL
                 IN  /\ body.price = sconfig.price
                     /\ body.currency = sconfig.currency
                     /\ body.wallet = sconfig.wallet
                     /\ body.network = "solana"
                     /\ body.sessionTTL = ttl
                     /\ ParseFloat(headers["DNS402-Price"]) = body.price
                     /\ headers["DNS402-Currency"] = body.currency
                     /\ headers["DNS402-Wallet"] = body.wallet
                     /\ headers["DNS402-Network"] = body.network
                     /\ ParseInt(headers["DNS402-Session-TTL"]) = body.sessionTTL

\* C21 witness: a server with no session TTL configured, charging in USDC,
\* has answered a request that carried no header with the challenge.
C21_Witness ==
    /\ sconfig.sessionTTL = 0 /\ sconfig.currency = "USDC"
    /\ \E r \in Slots :
          /\ reqs[r].status = 402 /\ reqs[r].proof = "" /\ reqs[r].payer = ""
          /\ reqs[r].challenge # None

\* The amounts by which the balances of the recipient grew in tx: lamports
\* of its accounts for SOL, hundredths of a token of the token accounts it
\* owns for every other currency.
Increases(tx, recipient, currency) ==
    IF currency = "SOL"
    THEN {tx.postBalances[i] - tx.preBalances[i] :
             i \in {k \in 1..Len(tx.accountKeys) : tx.accountKeys[k] = recipient}}
    ELSE {tx.postTokenBalances[i].uiAmount
              - (LET pre == {j \in 1..Len(tx.preTokenBalances) :
                                tx.preTokenBalances[j].accountIndex
                                    = tx.postTokenBalances[i].accountIndex}
                 IN  IF pre = {} THEN 0
                     ELSE tx.preTokenBalances[CHOOSE j \in pre : TRUE].uiAmount) :
             i \in {k \in 1..Len(tx.postTokenBalances) :
                       tx.postTokenBalances[k].owner = recipient}}

\* The increase inc (lamports, or hundredths of a token) is at least 99% of
\* the amount (hundredths of a SOL, or of a token).
AtLeast99Percent(inc, amount, currency) ==
    IF currency = "SOL"
    THEN inc >= amount * 99 * (LAMPORTS_PER_SOL \div 10000)
    ELSE inc * 100 >= amount * 99

\* C22: verifyPayment settles with a boolean, and with true only if the
\* ledger query answered, the transaction exists with its meta, is not
\* marked failed, and a balance of the expected recipient grew by at least
\* 99% of the expected amount; so a throwing query gives false.
C22_VerifyOnlyIfPaid ==
    run.stage = "verified" =>
        /\ run.valid \in BOOLEAN
        /\ ~run.payment.rpcOk => ~run.valid
        /\ run.valid =>
              /\ "S1" \in DOMAIN run.payment.chain
              /\ run.payment.chain["S1"] # TxNoMeta
              /\ ~run.payment.chain["S1"].err
              /\ \E inc \in Increases(run.payment.chain["S1"],
                                      run.payment.expectedRecipient,
                                      run.payment.currency) :
                     AtLeast99Percent(inc, run.payment.expectedAmount,
                                      run.payment.currency)

\* C22 witness: a transfer of 0.99 SOL to the expected wallet was accepted
\* as payment of 1.00 SOL.
C22_Witness ==
    /\ run.stage = "verified" /\ run.valid
    /\ run.payment.chain = [sig \in {"S1"} |-> TxSol(99, "W1", FALSE)]
    /\ run.payment.expectedAmount = 100 /\ run.payment.currency = "SOL"

\* ------------------------------------------- client claims, concluded

\* The first request of the fetch() call carried a proof: the call found a
\* live session when it started.
StartedOnCacheHit(call) ==
    call.kind = "fetch" /\ call.http # <<>> /\ call.http[1].signature # 0

\* C23: a fetch() call that starts while the cache holds a live session for
\* its domain issues its one request with the proof of that session; such a
\* call never issues another request, discovers, sends a payment or writes
\* the cache; the step in which its response arrives ends it with that
\* response, a 402 as well, and leaves cache and ledger as they were.
C23_CacheHitOnce ==
    [][\A c \in Slots :
          /\ (/\ calls[c].pc = "idle" /\ calls'[c].kind = "fetch"
              /\ CacheHit(sessionCache, calls'[c].domain, now)) =>
                 /\ calls'[c].pc = "cached"
                 /\ calls'[c].http = <<ProofHeaders(sessionCache[calls'[c].domain])>>
          /\ StartedOnCacheHit(calls'[c]) =>
                 /\ calls'[c].pc \in {"cached", "done"}
                 /\ Len(calls'[c].http) = 1
                 /\ calls'[c].sends = 0 /\ calls'[c].writes = 0
                 /\ calls'[c].record = None /\ calls'[c].payRecord = None
                 /\ calls'[c].pc = "done" =>
                       /\ calls'[c].outcome = "response"
                       /\ calls'[c].returned = calls'[c].got
          /\ (calls[c].pc = "cached" /\ calls'[c] # calls[c]) =>
                 /\ calls'[c].pc = "done"
                 /\ sessionCache' = sessionCache /\ nextSig' = nextSig]_vars

\* C23 witness: a fetch() call that started on a cache hit got 402 for its
\* one request and returned it.
C23_Witness ==
    \E c \in Slots :
        /\ StartedOnCacheHit(calls[c]) /\ calls[c].pc = "done"
        /\ calls[c].returned = 402 /\ Len(calls[c].http) = 1

\* C24 (as claimed), for a client that caches sessions: no two calls for
\* the same domain are waiting for a ledger-send of their own at once.
C24_OneSendInFlight ==
    cconfig.sessionCache =>
        \A c1, c2 \in Slots :
            (/\ c1 # c2 /\ calls[c1].domain = calls[c2].domain
             /\ calls[c1].pc = "send") => calls[c2].pc # "send"

\* C25 (as claimed): the terms a fetch() call has handed to ledger-send are
\* the terms that passed its auto-pay check, and the policy accepts them.
C25_PaysCheckedTerms ==
    \A c \in Slots :
        (calls[c].kind = "fetch" /\ calls[c].pc = "send") =>
            /\ calls[c].payRecord = calls[c].record
            /\ ~PolicyRejects(calls[c].payRecord[1])

\* ------------------------------------------- server claims, concluded

\* C26: a step of a request handler changes the session map only when it is
\* the step in which the verification of a request succeeds, and then the
\* entries of all payers but that of the request are as before; the steps
\* that end in a session hit, in the 402 challenge or in the 403 rejection,
\* and the return of the hook, leave the map unchanged.
C26_OnlyVerifiedPayerWritten ==
    [][reqs' # reqs =>
          /\ sessions' # sessions =>
                \E r \in Slots :
                    /\ reqs[r].pc = "verify" /\ reqs'[r].isValid
                    /\ DOMAIN sessions' = DOMAIN sessions \cup {reqs[r].payer}
                    /\ \A p \in DOMAIN sessions :
                          p # reqs[r].payer => sessions'[p] = sessions[p]
          /\ \A r \in Slots :
                (/\ reqs'[r] # reqs[r]
                 /\ \/ reqs[r].pc \in {"idle", "onPayment", "done"}
                    \/ reqs'[r].status \in {402, 403}) =>
                    sessions' = sessions]_vars

\* C26 witness: the sessions of two payers were written at different times,
\* the first still in the map, and a request has been rejected with 403
\* while both were there.
C26_Witness ==
    /\ DOMAIN sessions = {"P1", "P2"}
    /\ sessions["P1"].expiresAt # sessions["P2"].expiresAt
    /\ \E r \in Slots : reqs[r].status = 403

====
